---------------------------- MODULE Spec2Model ----------------------------
(***************************************************************************)
(* Model of HW3-aws-news-sentiment/code/DE1_HW_AWS_Script.py: a sequential *)
(* batch script that scores five articles, then five audio items, and then *)
(* writes a result table and a cost table.                                 *)
(*                                                                         *)
(* A text is modelled as [doc, len]: the first len characters of document  *)
(* doc.  Prices are in micro-dollars.  The sentiment label and the four    *)
(* scores of a record are opaque provider outputs copied into the record;  *)
(* a record is modelled by its source and content_type.                    *)
(***************************************************************************)
EXTENDS Integers, Sequences, FiniteSets, TLC

\* ------------------------------------------------------------ bounds
\* texts have lengths 0 and MAX_CHARS - ExtraLen .. MAX_CHARS + ExtraLen
ExtraLen == 1
\* the poll counters (waits, checks, nonterm) saturate at MaxPolls (+1 for checks)
MaxPolls == 3
\* int(time.time()) at job submission is drawn from 1 .. MaxTime
MaxTime == 1
\* the inputs of the cost calculation when it is checked on its own
MaxCostCalls == 7

\* ------------------------------------------------------------ program constants
PRICE_TRANSLATE_PER_CHAR == 15
PRICE_COMPREHEND_PER_CALL == 100
PRICE_TRANSCRIBE_PER_SEC == 400
MAX_CHARS == 4500
SECONDS_PER_JOB == 180

ARTICLES == <<"cnn", "cnbc", "reuters", "bbc", "german">>

YOUTUBE_VIDEOS ==
  << [name |-> "fox_news",        dir |-> "audio", file |-> "fox.mp3"],
     [name |-> "cnn_news",        dir |-> "audio", file |-> "cnn.mp3"],
     [name |-> "cnbc_fast_money", dir |-> "audio", file |-> "cnbc1.mp3"],
     [name |-> "cnbc_news",       dir |-> "audio", file |-> "cnbc2.mp3"],
     [name |-> "reuters_powell",  dir |-> "audio", file |-> "reuters.mp3"] >>

AWS_USAGE_INIT ==
  [translate_chars |-> 0, comprehend_calls |-> 0, transcribe_seconds |-> 0]

\* ------------------------------------------------------------ values
Lens == {0} \cup ((MAX_CHARS - ExtraLen) .. (MAX_CHARS + ExtraLen))
Timestamps == 1 .. MaxTime

NoText == [doc |-> "none", len |-> 0]
NoJob == [prefix |-> "none", name |-> "none", ts |-> 0]
NoUri == [kind |-> "none", job |-> NoJob]
NoError == [type |-> "none", message |-> "", job_name |-> NoJob, at |-> "none"]
NoRows == << >>

\* what the transcription service reports for a job
JobStatuses == {"QUEUED", "IN_PROGRESS", "COMPLETED", "FAILED"}
JobTerminal == {"COMPLETED", "FAILED"}
\* QUEUED -> IN_PROGRESS -> COMPLETED | FAILED; a terminal status stays
JobStep(from, to) ==
  \/ from = to
  \/ from = "QUEUED" /\ to = "IN_PROGRESS"
  \/ from \in {"QUEUED", "IN_PROGRESS"} /\ to \in JobTerminal

\* outcomes of requests.get: the call returns (any status) or raises
FetchReturns == {"ok", "non_2xx"}
FetchRaises == {"timeout", "connection_error"}

\* ------------------------------------------------------------ pure helpers
Min(a, b) == IF a < b THEN a ELSE b

\* text[:k]
SliceNoLimit(text, k) == text
Slice(text, k) == [text EXCEPT !.len = Min(text.len, k)]

\* len(text)
LenOf(text) == text.len

\* status in ["COMPLETED", "FAILED"]
IsTerminalOnlyCompleted(st) == st = "COMPLETED"
IsTerminalOnlyFailed(st) == st = "FAILED"
IsTerminal(st) == st \in {"COMPLETED", "FAILED"}

\* f"transcribe-{name}-{int(time.time())}"
JobName(name, ts) == [prefix |-> "transcribe", name |-> name, ts |-> ts]

\* job["TranscriptionJob"]: the Transcript entry exists only when COMPLETED
JobDescription(jn, st) ==
  [status |-> st,
   uri |-> IF st = "COMPLETED" THEN [kind |-> "transcript", job |-> jn] ELSE NoUri]

\* RuntimeError("Transcription failed")
TranscriptionFailedWithJob(jn) ==
  [type |-> "RuntimeError", message |-> "Transcription failed", job_name |-> jn,
   at |-> "none"]
TranscriptionFailed(jn) ==
  [type |-> "RuntimeError", message |-> "Transcription failed", job_name |-> NoJob,
   at |-> "none"]

\* an exception raised inside a library call
LibraryError(type) == [type |-> type, message |-> "", job_name |-> NoJob, at |-> "none"]

\* the dict appended for an article
ArticleRecord(name) == [source |-> name, content_type |-> "article"]

\* the dict appended for an audio item
VideoRecordAsVideo(name) == [source |-> name, content_type |-> "video"]
VideoRecord(name) == [source |-> name, content_type |-> "youtube"]

\* results.append(rec)
AppendFirst(res, rec) == <<rec>> \o res
AppendRecord(res, rec) == Append(res, rec)

\* AWS_USAGE["translate_chars"] += len(raw_text)
RecordTranslation(u, n) == [u EXCEPT !.translate_chars = @ + n]

\* AWS_USAGE["comprehend_calls"] += 1
RecordScoringCallTwice(u) == [u EXCEPT !.comprehend_calls = @ + 2]
RecordScoringCall(u) == [u EXCEPT !.comprehend_calls = @ + 1]

\* AWS_USAGE["transcribe_seconds"] += 180
RecordTranscription(u) == [u EXCEPT !.transcribe_seconds = @ + SECONDS_PER_JOB]

\* the cost calculation and the four cost rows
CostRowsTotalOmitsTranscribe(u) ==
  LET translate_cost == u.translate_chars * PRICE_TRANSLATE_PER_CHAR
      comprehend_cost == u.comprehend_calls * PRICE_COMPREHEND_PER_CALL
      transcribe_cost == u.transcribe_seconds * PRICE_TRANSCRIBE_PER_SEC
      total_cost == translate_cost + comprehend_cost
  IN << [service |-> "Amazon Translate", usage |-> u.translate_chars, cost_usd |-> translate_cost],
        [service |-> "Amazon Comprehend", usage |-> u.comprehend_calls, cost_usd |-> comprehend_cost],
        [service |-> "Amazon Transcribe", usage |-> u.transcribe_seconds, cost_usd |-> transcribe_cost],
        [service |-> "TOTAL", usage |-> "", cost_usd |-> total_cost] >>
CostRows(u) ==
  LET translate_cost == u.translate_chars * PRICE_TRANSLATE_PER_CHAR
      comprehend_cost == u.comprehend_calls * PRICE_COMPREHEND_PER_CALL
      transcribe_cost == u.transcribe_seconds * PRICE_TRANSCRIBE_PER_SEC
      total_cost == translate_cost + comprehend_cost + transcribe_cost
  IN << [service |-> "Amazon Translate", usage |-> u.translate_chars, cost_usd |-> translate_cost],
        [service |-> "Amazon Comprehend", usage |-> u.comprehend_calls, cost_usd |-> comprehend_cost],
        [service |-> "Amazon Transcribe", usage |-> u.transcribe_seconds, cost_usd |-> transcribe_cost],
        [service |-> "TOTAL", usage |-> "", cost_usd |-> total_cost] >>

\* file keys, local and in the bucket
TxtKey(name, suffix) == [dir |-> "output/txt", stem |-> name, suffix |-> suffix]
AudioKey(item) == [dir |-> "audio", stem |-> item.file, suffix |-> ""]
ResultsKey == [dir |-> "output/csv", stem |-> "sentiment_results", suffix |-> ".csv"]
CostsKey == [dir |-> "output/csv", stem |-> "aws_costs", suffix |-> ".csv"]

\* ------------------------------------------------------------ state
VARIABLES
  pc,             \* position of the script
  idx,            \* 1-based position of the current loop in its dict
  results,        \* the list `results`
  AWS_USAGE,      \* the dict AWS_USAGE
  raw_text, final_text, transcript_text,
  job_name, transcript_url,
  status,         \* `status` inside transcribe_audio
  remote_job,     \* the job's status at the transcription service
  local_files, s3_objects,
  cost_rows,      \* the list cost_rows, << >> until computed
  error,          \* the exception that ended the script, if any
  fetch_outcome,  \* how the last requests.get of scrape_article ended
  submitted,      \* the last text handed to Translate or Comprehend, and to which
  waits, checks, nonterm,  \* sleeps, status checks, non-terminal answers of this job
  uri_read        \* whether the TranscriptFileUri of this job was read

vars == << pc, idx, results, AWS_USAGE, raw_text, final_text, transcript_text,
           job_name, transcript_url, status, remote_job, local_files, s3_objects,
           cost_rows, error, fetch_outcome, submitted, waits, checks, nonterm,
           uri_read >>

NoSubmission == [to |-> "none", text |-> NoText]

Init ==
  /\ pc = "a_scrape"
  /\ idx = 1
  /\ results = << >>
  /\ AWS_USAGE = AWS_USAGE_INIT
  /\ raw_text = NoText
  /\ final_text = NoText
  /\ transcript_text = NoText
  /\ job_name = NoJob
  /\ transcript_url = NoUri
  /\ status = "none"
  /\ remote_job = "none"
  /\ local_files = {}
  /\ s3_objects = {}
  /\ cost_rows = NoRows
  /\ error = NoError
  /\ fetch_outcome = "none"
  /\ submitted = NoSubmission
  /\ waits = 0
  /\ checks = 0
  /\ nonterm = 0
  /\ uri_read = FALSE

\* an exception nobody catches ends the script; `at` is the step of the
\* traceback's innermost script frame
RaiseAndRetry(e) ==
  /\ pc' = pc
  /\ error' = [e EXCEPT !.at = pc]
Raise(e) ==
  /\ pc' = "aborted"
  /\ error' = [e EXCEPT !.at = pc]

\* the poll counts are kept up to a cap and stay there
Bump(n, cap) == IF n < cap THEN n + 1 ELSE n

name == IF pc \in {"a_scrape", "a_translate", "a_save", "a_upload", "a_score"}
        THEN ARTICLES[idx] ELSE YOUTUBE_VIDEOS[idx].name

pollVars == << status, remote_job, waits, checks, nonterm, uri_read >>
textVars == << raw_text, final_text, transcript_text >>
fileVars == << local_files, s3_objects >>

\* ------------------------------------------------------------ article loop
\* raw_text = scrape_article(url): requests.get raises on a timeout or a
\* connection error; a response of any status is parsed and its text returned
ScrapeArticle ==
  /\ pc = "a_scrape"
  /\ \/ \E o \in FetchReturns, n \in Lens :
          /\ raw_text' = [doc |-> name, len |-> n]
          /\ fetch_outcome' = o
          /\ pc' = "a_translate"
          /\ error' = error
     \/ \E o \in FetchRaises :
          /\ fetch_outcome' = o
          /\ Raise(LibraryError(o))
          /\ raw_text' = raw_text
  /\ UNCHANGED << idx, results, AWS_USAGE, final_text, transcript_text, job_name,
                  transcript_url, pollVars, fileVars, cost_rows, submitted >>

\* if name == "german": translate raw_text[:4500] and count len(raw_text)
ArticleTranslate ==
  /\ pc = "a_translate"
  /\ IF name = "german"
     THEN /\ submitted' = [to |-> "translate", text |-> Slice(raw_text, MAX_CHARS)]
          /\ \/ \E n \in Lens :
                  /\ final_text' = [doc |-> "translation", len |-> n]
                  /\ AWS_USAGE' = RecordTranslation(AWS_USAGE, LenOf(raw_text))
                  /\ pc' = "a_save"
                  /\ error' = error
             \/ /\ Raise(LibraryError("ClientError"))
                /\ UNCHANGED << final_text, AWS_USAGE >>
     ELSE /\ final_text' = raw_text
          /\ pc' = "a_save"
          /\ UNCHANGED << submitted, AWS_USAGE, error >>
  /\ UNCHANGED << idx, results, raw_text, transcript_text, job_name, transcript_url,
                  pollVars, fileVars, cost_rows, fetch_outcome >>

\* write output/txt/{name}_article.txt
ArticleSave ==
  /\ pc = "a_save"
  /\ local_files' = local_files \cup {TxtKey(name, "_article.txt")}
  /\ pc' = "a_upload"
  /\ UNCHANGED << idx, results, AWS_USAGE, textVars, job_name, transcript_url,
                  pollVars, s3_objects, cost_rows, error, fetch_outcome, submitted >>

\* s3.upload_file(article_txt_path, ...)
ArticleUpload ==
  /\ pc = "a_upload"
  /\ \/ /\ s3_objects' = s3_objects \cup {TxtKey(name, "_article.txt")}
        /\ pc' = "a_score"
        /\ error' = error
     \/ /\ Raise(LibraryError("S3UploadFailedError"))
        /\ s3_objects' = s3_objects
  /\ UNCHANGED << idx, results, AWS_USAGE, textVars, job_name, transcript_url,
                  pollVars, local_files, cost_rows, fetch_outcome, submitted >>

\* detect_sentiment(final_text[:4500]); count the call; append the record;
\* go to the next article, or to the first audio item after the last one
ArticleScore ==
  /\ pc = "a_score"
  /\ submitted' = [to |-> "comprehend", text |-> Slice(final_text, MAX_CHARS)]
  /\ \/ /\ AWS_USAGE' = RecordScoringCall(AWS_USAGE)
        /\ results' = AppendRecord(results, ArticleRecord(name))
        /\ IF idx < Len(ARTICLES)
           THEN idx' = idx + 1 /\ pc' = "a_scrape"
           ELSE idx' = 1 /\ pc' = "v_upload_audio"
        /\ error' = error
     \/ /\ Raise(LibraryError("ClientError"))
        /\ UNCHANGED << AWS_USAGE, results, idx >>
  /\ UNCHANGED << textVars, job_name, transcript_url, pollVars, fileVars,
                  cost_rows, fetch_outcome >>

\* ------------------------------------------------------------ audio loop
\* s3.upload_file(filepath, ...); then s3_uri and job_name are computed
UploadAudio ==
  /\ pc = "v_upload_audio"
  /\ \/ \E ts \in Timestamps :
          /\ s3_objects' = s3_objects \cup {AudioKey(YOUTUBE_VIDEOS[idx])}
          /\ job_name' = JobName(name, ts)
          /\ pc' = "v_start"
          /\ error' = error
     \/ /\ Raise(LibraryError("S3UploadFailedError"))
        /\ UNCHANGED << s3_objects, job_name >>
  /\ UNCHANGED << idx, results, AWS_USAGE, textVars, transcript_url, pollVars,
                  local_files, cost_rows, fetch_outcome, submitted >>

\* transcribe_audio: start_transcription_job
StartJob ==
  /\ pc = "v_start"
  /\ \/ /\ remote_job' = "QUEUED"
        /\ status' = "none"
        /\ waits' = 0 /\ checks' = 0 /\ nonterm' = 0
        /\ uri_read' = FALSE
        /\ pc' = "v_poll"
        /\ error' = error
     \/ /\ Raise(LibraryError("ClientError"))
        /\ UNCHANGED pollVars
  /\ UNCHANGED << idx, results, AWS_USAGE, textVars, job_name, transcript_url,
                  fileVars, cost_rows, fetch_outcome, submitted >>

\* one pass of the while loop with the service answering st, and, when the
\* loop breaks, the rest of transcribe_audio
PollJob(st) ==
  /\ pc = "v_poll"
  /\ JobStep(remote_job, st)
  /\ remote_job' = st
  /\ status' = st
  /\ checks' = Bump(checks, MaxPolls + 1)
  /\ nonterm' = IF st \in JobTerminal THEN nonterm ELSE Bump(nonterm, MaxPolls)
  /\ IF IsTerminal(st)
     THEN IF st = "FAILED"
          THEN /\ Raise(TranscriptionFailed(job_name))
               /\ UNCHANGED << uri_read, transcript_url >>
          ELSE /\ uri_read' = TRUE
               /\ IF JobDescription(job_name, st).uri = NoUri
                  THEN /\ Raise(LibraryError("KeyError"))
                       /\ transcript_url' = transcript_url
                  ELSE /\ transcript_url' = JobDescription(job_name, st).uri
                       /\ pc' = "v_fetch"
                       /\ error' = error
     ELSE /\ pc' = "v_sleep"
          /\ UNCHANGED << uri_read, transcript_url, error >>
  /\ UNCHANGED << idx, results, AWS_USAGE, textVars, job_name, waits, fileVars,
                  cost_rows, fetch_outcome, submitted >>

PollTerminal == \E st \in JobTerminal : PollJob(st)
PollNonTerminal == \E st \in JobStatuses \ JobTerminal : PollJob(st)

\* get_transcription_job itself raises
PollError ==
  /\ pc = "v_poll"
  /\ Raise(LibraryError("ClientError"))
  /\ UNCHANGED << idx, results, AWS_USAGE, textVars, job_name, transcript_url,
                  pollVars, fileVars, cost_rows, fetch_outcome, submitted >>

\* time.sleep(5)
Sleep ==
  /\ pc = "v_sleep"
  /\ waits' = Bump(waits, MaxPolls)
  /\ pc' = "v_poll"
  /\ UNCHANGED << idx, results, AWS_USAGE, textVars, job_name, transcript_url,
                  status, remote_job, checks, nonterm, uri_read, fileVars,
                  cost_rows, error, fetch_outcome, submitted >>

\* requests.get(transcript_url).json()["results"]["transcripts"][0]["transcript"]
FetchTranscript ==
  /\ pc = "v_fetch"
  /\ \/ \E n \in Lens :
          /\ transcript_text' = [doc |-> name, len |-> n]
          /\ pc' = "v_save"
          /\ error' = error
     \/ \E o \in FetchRaises \cup {"KeyError"} :
          /\ Raise(LibraryError(o))
          /\ transcript_text' = transcript_text
  /\ UNCHANGED << idx, results, AWS_USAGE, raw_text, final_text, job_name,
                  transcript_url, pollVars, fileVars, cost_rows, fetch_outcome,
                  submitted >>

\* write output/txt/{name}_transcript.txt
SaveTranscript ==
  /\ pc = "v_save"
  /\ local_files' = local_files \cup {TxtKey(name, "_transcript.txt")}
  /\ pc' = "v_upload"
  /\ UNCHANGED << idx, results, AWS_USAGE, textVars, job_name, transcript_url,
                  pollVars, s3_objects, cost_rows, error, fetch_outcome, submitted >>

\* s3.upload_file(transcript_path, ...)
UploadTranscript ==
  /\ pc = "v_upload"
  /\ \/ /\ s3_objects' = s3_objects \cup {TxtKey(name, "_transcript.txt")}
        /\ pc' = "v_score"
        /\ error' = error
     \/ /\ Raise(LibraryError("S3UploadFailedError"))
        /\ s3_objects' = s3_objects
  /\ UNCHANGED << idx, results, AWS_USAGE, textVars, job_name, transcript_url,
                  pollVars, local_files, cost_rows, fetch_outcome, submitted >>

\* detect_sentiment(transcript_text[:4500]); count the call and 180 seconds;
\* append the record; go to the next audio item, or on to the result table
ScoreTranscript ==
  /\ pc = "v_score"
  /\ submitted' = [to |-> "comprehend", text |-> Slice(transcript_text, MAX_CHARS)]
  /\ \/ /\ AWS_USAGE' = RecordTranscription(RecordScoringCall(AWS_USAGE))
        /\ results' = AppendRecord(results, VideoRecord(name))
        /\ IF idx < Len(YOUTUBE_VIDEOS)
           THEN idx' = idx + 1 /\ pc' = "v_upload_audio"
           ELSE idx' = idx /\ pc' = "s_results"
        /\ error' = error
     \/ /\ Raise(LibraryError("ClientError"))
        /\ UNCHANGED << AWS_USAGE, results, idx >>
  /\ UNCHANGED << textVars, job_name, transcript_url, pollVars, fileVars,
                  cost_rows, fetch_outcome >>

\* ------------------------------------------------------------ tables
\* df.to_csv("output/csv/sentiment_results.csv")
SaveResults ==
  /\ pc = "s_results"
  /\ local_files' = local_files \cup {ResultsKey}
  /\ pc' = "s_results_upload"
  /\ UNCHANGED << idx, results, AWS_USAGE, textVars, job_name, transcript_url,
                  pollVars, s3_objects, cost_rows, error, fetch_outcome, submitted >>

UploadResults ==
  /\ pc = "s_results_upload"
  /\ \/ /\ s3_objects' = s3_objects \cup {ResultsKey}
        /\ pc' = "s_cost"
        /\ error' = error
     \/ /\ Raise(LibraryError("S3UploadFailedError"))
        /\ s3_objects' = s3_objects
  /\ UNCHANGED << idx, results, AWS_USAGE, textVars, job_name, transcript_url,
                  pollVars, local_files, cost_rows, fetch_outcome, submitted >>

\* the cost calculation and cost_rows
CostCalculation ==
  /\ pc = "s_cost"
  /\ cost_rows' = CostRows(AWS_USAGE)
  /\ pc' = "s_costs_save"
  /\ UNCHANGED << idx, results, AWS_USAGE, textVars, job_name, transcript_url,
                  pollVars, fileVars, error, fetch_outcome, submitted >>

\* df_cost.to_csv("output/csv/aws_costs.csv")
SaveCosts ==
  /\ pc = "s_costs_save"
  /\ local_files' = local_files \cup {CostsKey}
  /\ pc' = "s_costs_upload"
  /\ UNCHANGED << idx, results, AWS_USAGE, textVars, job_name, transcript_url,
                  pollVars, s3_objects, cost_rows, error, fetch_outcome, submitted >>

UploadCosts ==
  /\ pc = "s_costs_upload"
  /\ \/ /\ s3_objects' = s3_objects \cup {CostsKey}
        /\ pc' = "done"
        /\ error' = error
     \/ /\ Raise(LibraryError("S3UploadFailedError"))
        /\ s3_objects' = s3_objects
  /\ UNCHANGED << idx, results, AWS_USAGE, textVars, job_name, transcript_url,
                  pollVars, local_files, cost_rows, fetch_outcome, submitted >>

\* ------------------------------------------------------------ specifications
Next ==
  \/ ScrapeArticle \/ ArticleTranslate \/ ArticleSave \/ ArticleUpload
  \/ ArticleScore
  \/ UploadAudio \/ StartJob \/ PollTerminal \/ PollNonTerminal \/ PollError
  \/ Sleep \/ FetchTranscript \/ SaveTranscript \/ UploadTranscript
  \/ ScoreTranscript
  \/ SaveResults \/ UploadResults \/ CostCalculation \/ SaveCosts \/ UploadCosts

Spec == Init /\ [][Next]_vars

\* the script keeps running, and the job sooner or later reports a terminal status
FairSpec == Spec /\ WF_vars(Next) /\ SF_vars(PollTerminal)

\* the cost calculation on its own, over arbitrary counter values
CostChars == Lens \cup {1000}
CostSeconds == {k * SECONDS_PER_JOB : k \in 0 .. Len(YOUTUBE_VIDEOS)}

InitCost ==
  /\ pc = "s_cost"
  /\ idx = Len(YOUTUBE_VIDEOS)
  /\ results = << >>
  /\ AWS_USAGE \in [translate_chars : CostChars,
                    comprehend_calls : 0 .. MaxCostCalls,
                    transcribe_seconds : CostSeconds]
  /\ raw_text = NoText
  /\ final_text = NoText
  /\ transcript_text = NoText
  /\ job_name = NoJob
  /\ transcript_url = NoUri
  /\ status = "none"
  /\ remote_job = "none"
  /\ local_files = {}
  /\ s3_objects = {}
  /\ cost_rows = NoRows
  /\ error = NoError
  /\ fetch_outcome = "none"
  /\ submitted = NoSubmission
  /\ waits = 0
  /\ checks = 0
  /\ nonterm = 0
  /\ uri_read = FALSE

NextCost == CostCalculation \/ SaveCosts \/ UploadCosts

SpecCost == InitCost /\ [][NextCost]_vars

\* ------------------------------------------------------------ properties
ArticleSteps == {"a_scrape", "a_translate", "a_save", "a_upload", "a_score"}
AudioSteps == {"v_upload_audio", "v_start", "v_poll", "v_sleep", "v_fetch",
               "v_save", "v_upload", "v_score"}
LoopSteps == {"v_poll", "v_sleep"}
TableSteps == {"s_results", "s_results_upload", "s_cost", "s_costs_save",
               "s_costs_upload", "done"}
ConfiguredSources ==
  ARTICLES \o [i \in 1 .. Len(YOUTUBE_VIDEOS) |-> YOUTUBE_VIDEOS[i].name]
ArticleNames == {ARTICLES[i] : i \in 1 .. Len(ARTICLES)}
AudioNames == {YOUTUBE_VIDEOS[i].name : i \in 1 .. Len(YOUTUBE_VIDEOS)}
TruncLen(n) == IF n > MAX_CHARS THEN MAX_CHARS ELSE n
\* items completed before the one the script is in (or was in when it failed)
CompletedAt(step) ==
  IF step \in ArticleSteps THEN idx - 1
  ELSE IF step \in AudioSteps THEN Len(ARTICLES) + idx - 1
  ELSE Len(ARTICLES) + Len(YOUTUBE_VIDEOS)

\* C1: the sources of `results` are always a prefix of the configured articles
\* followed by the configured audio items, without repetition; when the script
\* is done they are that whole sequence (article count + audio count records).
C1_ResultsArePrefix ==
  /\ Len(results) <= Len(ConfiguredSources)
  /\ \A i \in 1 .. Len(results) : results[i].source = ConfiguredSources[i]
  /\ \A i, j \in 1 .. Len(results) :
        results[i].source = results[j].source => i = j
  /\ pc = "done" =>
        /\ Len(results) = Len(ARTICLES) + Len(YOUTUBE_VIDEOS)
        /\ \A i \in 1 .. Len(ConfiguredSources) :
              Cardinality({j \in 1 .. Len(results) :
                             results[j].source = ConfiguredSources[i]}) = 1

C1_Witness ==
  /\ pc = "done"
  /\ Len(results) = 10
  /\ results[5].source = "german"
  /\ results[6].source = "fox_news"

\* C2: after n non-terminal answers and one terminal answer the poller has
\* slept n times and checked n+1 times; on COMPLETED it returns the location of
\* that last answer, on FAILED it raises and never reads the location; the
\* location is read only once COMPLETED has been observed.
C2_PollerCounts ==
  /\ waits <= nonterm
  /\ uri_read => status = "COMPLETED"
  /\ (status \in JobTerminal /\ checks <= MaxPolls) =>
        /\ waits = nonterm
        /\ checks = nonterm + 1
  /\ (status = "COMPLETED" /\ (pc = "v_fetch" \/ error.at = "v_fetch")) =>
        /\ uri_read
        /\ transcript_url = [kind |-> "transcript", job |-> job_name]
  /\ status = "FAILED" =>
        /\ ~uri_read
        /\ pc = "aborted"
        /\ error.type = "RuntimeError"
        /\ error.at = "v_poll"

C2_Witness ==
  /\ pc = "v_fetch"
  /\ status = "COMPLETED"
  /\ nonterm = 2 /\ waits = 2 /\ checks = 3
  /\ uri_read

C2_WitnessFailed ==
  /\ pc = "aborted"
  /\ status = "FAILED"
  /\ nonterm = 1 /\ waits = 1 /\ checks = 2
  /\ ~uri_read

C4_State ==
  /\ AWS_USAGE.comprehend_calls = Len(results)
  /\ AWS_USAGE.transcribe_seconds =
       180 * Cardinality({i \in 1 .. Len(results) : results[i].source \in AudioNames})
  /\ AWS_USAGE.translate_chars =
       IF final_text.doc = "translation" THEN raw_text.len ELSE 0
C4_Step ==
  /\ AWS_USAGE'.translate_chars >= AWS_USAGE.translate_chars
  /\ AWS_USAGE'.comprehend_calls >= AWS_USAGE.comprehend_calls
  /\ AWS_USAGE'.transcribe_seconds >= AWS_USAGE.transcribe_seconds
  /\ AWS_USAGE'.comprehend_calls # AWS_USAGE.comprehend_calls =>
        /\ pc \in {"a_score", "v_score"}
        /\ AWS_USAGE'.comprehend_calls = AWS_USAGE.comprehend_calls + 1
        /\ Len(results') = Len(results) + 1
  /\ AWS_USAGE'.transcribe_seconds # AWS_USAGE.transcribe_seconds => pc = "v_score"
  /\ AWS_USAGE'.translate_chars # AWS_USAGE.translate_chars => pc = "a_translate"
C4_Counters == [](C4_State) /\ [][C4_Step]_vars

C4_Witness ==
  /\ pc = "v_upload_audio"
  /\ idx = 3
  /\ AWS_USAGE.comprehend_calls = 7
  /\ AWS_USAGE.transcribe_seconds = 360
  /\ AWS_USAGE.translate_chars = MAX_CHARS + 1

\* C5: the text handed to Translate or Comprehend is the first
\* min(length, 4500) characters of the text at hand, and the translation counter
\* gets the full length of the extracted text.
C5_Truncation ==
  /\ ((pc = "a_save" \/ error.at = "a_translate") /\ ARTICLES[idx] = "german") =>
        /\ submitted.to = "translate"
        /\ submitted.text.doc = raw_text.doc
        /\ submitted.text.len = TruncLen(raw_text.len)
  /\ (pc = "a_save" /\ ARTICLES[idx] = "german") =>
        AWS_USAGE.translate_chars = raw_text.len
  /\ ((pc = "a_scrape" /\ idx > 1 /\ error = NoError)
        \/ (pc = "v_upload_audio" /\ idx = 1) \/ error.at = "a_score") =>
        /\ submitted.to = "comprehend"
        /\ submitted.text.doc = final_text.doc
        /\ submitted.text.len = TruncLen(final_text.len)
  /\ ((pc = "v_upload_audio" /\ idx > 1) \/ pc = "s_results"
        \/ error.at = "v_score") =>
        /\ submitted.to = "comprehend"
        /\ submitted.text.doc = transcript_text.doc
        /\ submitted.text.len = TruncLen(transcript_text.len)

C5_Witness ==
  /\ pc = "a_save"
  /\ ARTICLES[idx] = "german"
  /\ raw_text.len = MAX_CHARS + 1
  /\ submitted.text.len = MAX_CHARS
  /\ AWS_USAGE.translate_chars = MAX_CHARS + 1

\* C6: the cost rows are four (Translate, Comprehend, Transcribe, TOTAL), each
\* service cost is usage times its unit price, TOTAL is their sum, the rows stay
\* what the counters determine, and the counters are not changed; for
\* (1000, 6, 900) the costs are 15000, 600, 360000 and 375600 micro-dollars.
C6_State ==
  /\ pc # "s_cost" => cost_rows # NoRows
  /\ cost_rows # NoRows =>
        /\ Len(cost_rows) = 4
        /\ cost_rows[1].service = "Amazon Translate"
        /\ cost_rows[2].service = "Amazon Comprehend"
        /\ cost_rows[3].service = "Amazon Transcribe"
        /\ cost_rows[4].service = "TOTAL"
        /\ cost_rows[1].usage = AWS_USAGE.translate_chars
        /\ cost_rows[2].usage = AWS_USAGE.comprehend_calls
        /\ cost_rows[3].usage = AWS_USAGE.transcribe_seconds
        /\ cost_rows[1].cost_usd = AWS_USAGE.translate_chars * 15
        /\ cost_rows[2].cost_usd = AWS_USAGE.comprehend_calls * 100
        /\ cost_rows[3].cost_usd = AWS_USAGE.transcribe_seconds * 400
        /\ cost_rows[4].cost_usd =
             cost_rows[1].cost_usd + cost_rows[2].cost_usd + cost_rows[3].cost_usd
        /\ (/\ AWS_USAGE.translate_chars = 1000
            /\ AWS_USAGE.comprehend_calls = 6
            /\ AWS_USAGE.transcribe_seconds = 900) =>
              /\ cost_rows[1].cost_usd = 15000
              /\ cost_rows[2].cost_usd = 600
              /\ cost_rows[3].cost_usd = 360000
              /\ cost_rows[4].cost_usd = 375600
C6_Step ==
  /\ AWS_USAGE' = AWS_USAGE
  /\ cost_rows # NoRows => cost_rows' = cost_rows
C6_CostRows == [](C6_State) /\ [][C6_Step]_vars

C6_Witness ==
  /\ cost_rows # NoRows
  /\ AWS_USAGE.translate_chars = 1000
  /\ AWS_USAGE.comprehend_calls = 6
  /\ AWS_USAGE.transcribe_seconds = 900
  /\ cost_rows[4].cost_usd = 375600

\* C7: every fetch failure of scrape_article (timeout, non-2xx status,
\* connection error) ends the item: the script aborts in the fetch and no record
\* is appended for that article.
C7_FetchFailureIsHard ==
  fetch_outcome \in {"timeout", "non_2xx", "connection_error"} =>
    /\ pc = "aborted"
    /\ error.at = "a_scrape"
    /\ \A i \in 1 .. Len(results) : results[i].source # ARTICLES[idx]

\* C8: the error raised for a FAILED job carries the name of that job.
C8_FailureCarriesJobName ==
  (status = "FAILED" /\ pc = "aborted") =>
    /\ error.type = "RuntimeError"
    /\ error.job_name = job_name

\* C9 as stated: article records have content kind article and audio records
\* have content kind video.
C9_AudioKindIsVideo ==
  \A i \in 1 .. Len(results) :
    /\ results[i].source \in ArticleNames => results[i].content_type = "article"
    /\ results[i].source \in AudioNames => results[i].content_type = "video"

\* C9 amended: article records have content kind article and audio records have
\* content kind youtube; a complete run has 10 records, 5 of each kind.
C9_AudioKindIsYoutube ==
  /\ \A i \in 1 .. Len(results) :
        /\ results[i].source \in ArticleNames => results[i].content_type = "article"
        /\ results[i].source \in AudioNames => results[i].content_type = "youtube"
  /\ pc = "done" =>
        /\ Len(results) = 10
        /\ Cardinality({i \in 1 .. 10 : results[i].content_type = "article"}) = 5
        /\ Cardinality({i \in 1 .. 10 : results[i].content_type = "youtube"}) = 5

C9_Witness ==
  /\ pc = "done"
  /\ results[1].content_type = "article"
  /\ results[10].content_type = "youtube"
  /\ results[10].source = "reuters_powell"

\* C10: the wait loop is left only when a status check returns COMPLETED or
\* FAILED (or the check itself raises, which ends the script); a non-terminal
\* answer always leads to another sleep and another check; while the script is
\* in the loop no later item, result table or cost table is produced; and once
\* the job reports a terminal status, the script gets out of the loop.
C10_LoopState ==
  pc \in LoopSteps =>
    /\ Len(results) = Len(ARTICLES) + idx - 1
    /\ cost_rows = NoRows
    /\ {ResultsKey, CostsKey} \cap (local_files \cup s3_objects) = {}
    /\ status \notin {"COMPLETED", "FAILED"}
C10_LoopStep ==
  /\ (pc \in LoopSteps /\ pc' \notin LoopSteps) =>
        \/ status' \in {"COMPLETED", "FAILED"} /\ pc' \in {"v_fetch", "aborted"}
        \/ pc' = "aborted" /\ error'.type = "ClientError" /\ status' = status
  /\ (pc = "v_poll" /\ status' \notin {"COMPLETED", "FAILED"} /\ pc' # "aborted") =>
        pc' = "v_sleep"
  /\ (pc = "v_poll" /\ status' \in {"COMPLETED", "FAILED"}) => pc' \notin LoopSteps
  /\ pc = "v_sleep" => pc' = "v_poll"
C10_PollerLeavesLoop ==
  /\ [](C10_LoopState)
  /\ [][C10_LoopStep]_vars
  /\ (pc \in LoopSteps) ~> (pc \notin LoopSteps)

C10_Witness ==
  /\ pc = "v_fetch"
  /\ status = "COMPLETED"
  /\ nonterm = MaxPolls /\ waits = MaxPolls /\ checks = MaxPolls + 1

==========================================================================
